---- MODULE Spec2Model ----
(***************************************************************************)
(* Model of the copr frontend authentication facade                        *)
(* (coprs/auth.py) and of the GSSAPI entry point                           *)
(* (coprs/views/apiv3_ns/apiv3_general.py).                                *)
(*                                                                         *)
(* Strings that the code takes apart (principals, identity URLs, DNs,      *)
(* usernames, e-mails) are sequences of one-character strings.  Python     *)
(* values that may be None are tagged records, and a call's outcome is     *)
(* either Return(value) or Raise(exception, message).                      *)
(***************************************************************************)
EXTENDS Integers, Sequences, FiniteSets, TLC

VARIABLES config, users, krb5_login, session, call, ret

vars == <<config, users, krb5_login, session, call, ret>>

(***************************************************************************)
(* Bounds of the model.                                                    *)
(***************************************************************************)
MaxPrincipalLen == 3
MaxHostLen == 3
MaxScriptLen == 3
MaxFurtherSegments == 2
MaxMemberOf == 2
MaxRequests == 2

(***************************************************************************)
(* Python values and call outcomes.                                        *)
(***************************************************************************)
None == [t |-> "none"]
Str(s) == [t |-> "str", v |-> s]
List(l) == [t |-> "list", v |-> l]
Dict(items) == [t |-> "dict", items |-> items]

Return(v) == [kind |-> "return", value |-> v]
Raise(e, m) == [kind |-> "raise", exc |-> e, msg |-> m]

\* the statements after a call: an exception of the call propagates, and a
\* returned value is what the following statements F work with
Then(r, F(_)) == IF r.kind # "return" THEN r ELSE F(r.value)

\* a local variable: the value v under the name F gives it
With(v, F(_)) == F(v)

Pending == [kind |-> "pending"]
NoCall == [op |-> "none"]

(***************************************************************************)
(* Characters.                                                             *)
(***************************************************************************)
Letters == {"a", "b", "c", "d", "e", "f", "g", "h", "i", "j", "k", "l", "m",
            "n", "o", "p", "q", "r", "s", "t", "u", "v", "w", "x", "y", "z",
            "A", "B", "C", "D", "E", "F", "G", "H", "I", "J", "K", "L", "M",
            "N", "O", "P", "Q", "R", "S", "T", "U", "V", "W", "X", "Y", "Z"}
Digits == {"0", "1", "2", "3", "4", "5", "6", "7", "8", "9"}

\* the regular expression class \w, restricted to ASCII
IsWordChar(c) == c \in Letters \cup Digits \cup {"_"}

\* the class [\w.-]
IsNameChar(c) == IsWordChar(c) \/ c \in {".", "-"}

RECURSIVE StringsUpTo(_, _)
StringsUpTo(alphabet, n) ==
    IF n = 0 THEN {<<>>}
    ELSE LET shorter == StringsUpTo(alphabet, n - 1)
         IN  shorter \cup {Append(s, c) : s \in shorter, c \in alphabet}

(***************************************************************************)
(* apiv3_general.krb_straighten_username                                   *)
(***************************************************************************)
\* re.sub(r'@.*', '', s): every '@' and what follows it up to, but not
\* including, the next newline is removed ('.' does not match a newline)
RECURSIVE SubRealm(_, _)
SubRealm(s, skipping) ==
    IF s = <<>> THEN <<>>
    ELSE IF Head(s) = "\n" THEN <<"\n">> \o SubRealm(Tail(s), FALSE)
    ELSE IF skipping THEN SubRealm(Tail(s), TRUE)
    ELSE IF Head(s) = "@" THEN SubRealm(Tail(s), TRUE)
    ELSE <<Head(s)>> \o SubRealm(Tail(s), FALSE)

\* re.sub('/', '_', s)
SubSlash(s) == [i \in 1..Len(s) |-> IF s[i] = "/" THEN "_" ELSE s[i]]

AllNameChars(s) == \A i \in 1..Len(s) : IsNameChar(s[i])

\* re.match(r"^[\w.-]+$", s): '$' matches at the end of the string and also
\* just before a newline that ends the string
MatchName(s) ==
    \/ Len(s) >= 1 /\ AllNameChars(s)
    \/ /\ Len(s) >= 2
       /\ s[Len(s)] = "\n"
       /\ AllNameChars(SubSeq(s, 1, Len(s) - 1))

krb_straighten_username(krb_remote_user) ==
    LET username == SubSlash(SubRealm(krb_remote_user, FALSE))
    IN  IF MatchName(username) THEN Str(username) ELSE None

(***************************************************************************)
(* General string helpers (Python str methods).                            *)
(***************************************************************************)
\* str.find(c) + 1: the first position of c in s, 0 when there is none
RECURSIVE IndexFrom(_, _, _)
IndexFrom(s, cs, i) ==
    IF i > Len(s) THEN 0
    ELSE IF s[i] \in cs THEN i
    ELSE IndexFrom(s, cs, i + 1)

IndexOf(s, c) == IndexFrom(s, {c}, 1)

StartsWith(s, prefix) ==
    /\ Len(s) >= Len(prefix)
    /\ SubSeq(s, 1, Len(prefix)) = prefix

\* str.replace(old, new) for a non-empty old: the non-overlapping
\* occurrences of old, found left to right, are replaced
RECURSIVE Replace(_, _, _)
Replace(s, old, new) ==
    IF s = <<>> THEN <<>>
    ELSE IF StartsWith(s, old)
         THEN new \o Replace(SubSeq(s, Len(old) + 1, Len(s)), old, new)
         ELSE <<Head(s)>> \o Replace(Tail(s), old, new)

\* str.split(sep) for a one-character sep
RECURSIVE Split(_, _)
Split(s, sep) ==
    LET i == IndexOf(s, sep)
    IN  IF i = 0 THEN <<s>>
        ELSE <<SubSeq(s, 1, i - 1)>> \o Split(SubSeq(s, i + 1, Len(s)), sep)

(***************************************************************************)
(* urllib.parse.urlparse(url).netloc, as used by fed_raw_name, for URLs    *)
(* without control characters, spaces and brackets.                        *)
(***************************************************************************)
SchemeChars == Letters \cup Digits \cup {"+", "-", "."}

urlparse_netloc(url) ==
    LET i == IndexOf(url, ":")
        hasScheme == /\ i > 1
                     /\ url[1] \in Letters
                     /\ \A j \in 1..(i - 1) : url[j] \in SchemeChars
        rest == IF hasScheme THEN SubSeq(url, i + 1, Len(url)) ELSE url
        delim == IndexFrom(rest, {"/", "?", "#"}, 3)
        stop == IF delim = 0 THEN Len(rest) ELSE delim - 1
    IN  IF StartsWith(rest, <<"/", "/">>) THEN SubSeq(rest, 3, stop)
        ELSE <<>>

(***************************************************************************)
(* FedoraAccounts.fed_raw_name                                             *)
(***************************************************************************)
\* a variant that forgets the dot in front of the provider's host
fed_raw_name_nodot(cfg, oidname) ==
    LET oidname_netloc == urlparse_netloc(oidname)
        config_netloc == urlparse_netloc(cfg.OPENID_PROVIDER_URL)
    IN  IF oidname_netloc = <<>> THEN oidname
        ELSE Replace(oidname_netloc, config_netloc, <<>>)

fed_raw_name(cfg, oidname) ==
    LET oidname_netloc == urlparse_netloc(oidname)
        config_netloc == urlparse_netloc(cfg.OPENID_PROVIDER_URL)
    IN  IF oidname_netloc = <<>> THEN oidname
        ELSE Replace(oidname_netloc, <<".">> \o config_netloc, <<>>)

(***************************************************************************)
(* Python containers: truth value, dict() and subscripting.                *)
(***************************************************************************)
Absent == [t |-> "absent"]

\* bool(v) of a Python value
Truthy(v) ==
    CASE v.t = "none" -> FALSE
      [] v.t = "str"  -> v.v # <<>>
      [] v.t = "list" -> v.v # <<>>
      [] v.t = "dict" -> v.items # <<>>
      [] OTHER        -> TRUE

\* d[k] = v on a dict held as its items in insertion order
DictSet(items, k, v) ==
    IF \E i \in 1..Len(items) : items[i][1] = k
    THEN [i \in 1..Len(items) |->
            IF items[i][1] = k THEN <<k, v>> ELSE items[i]]
    ELSE Append(items, <<k, v>>)

\* dict(pairs): every element must have length 2, a later pair replaces an
\* earlier one with the same key
RECURSIVE DictUpdate(_, _)
DictUpdate(items, pairs) ==
    IF pairs = <<>> THEN Return(Dict(items))
    ELSE IF Len(Head(pairs)) # 2 THEN Raise("ValueError", <<"dictionary update sequence element has wrong length">>)
    ELSE DictUpdate(DictSet(items, Head(pairs)[1], Head(pairs)[2]),
                    Tail(pairs))

DictFromPairs(pairs) == DictUpdate(<<>>, pairs)

\* d[k]
DictGet(d, k) ==
    IF \E i \in 1..Len(d.items) : d.items[i][1] = k
    THEN Return(d.items[CHOOSE i \in 1..Len(d.items) : d.items[i][1] = k][2])
    ELSE Raise("KeyError", <<k>>)

(***************************************************************************)
(* Bytes of the directory's attribute values and bytes.decode("utf-8").    *)
(* Bytes below 128 decode to the character with that code; the byte 255    *)
(* occurs in no UTF-8 encoding.                                            *)
(***************************************************************************)
Ord == [c \in {"c", "n", "o", "u", "d", "g", "X", "Y", "=", ","} |->
          CASE c = "c" -> 99  [] c = "n" -> 110 [] c = "o" -> 111
            [] c = "u" -> 117 [] c = "d" -> 100 [] c = "g" -> 103
            [] c = "X" -> 88  [] c = "Y" -> 89  [] c = "=" -> 61
            [] c = "," -> 44]

Chr(b) == CHOOSE c \in DOMAIN Ord : Ord[c] = b

encode(s) == [i \in 1..Len(s) |-> Ord[s[i]]]

decode(bytes) ==
    IF \E i \in 1..Len(bytes) : bytes[i] >= 128
    THEN Raise("UnicodeDecodeError", <<"invalid start byte">>)
    ELSE Return([i \in 1..Len(bytes) |-> Chr(bytes[i])])

(***************************************************************************)
(* class LDAP.  The directory server is an input: a script gives, attempt  *)
(* after attempt, what connect.search_s does: it raises ldap.SERVER_DOWN,  *)
(* raises another ldap.LDAPError, or returns a list of (dn, attrs) entries.*)
(***************************************************************************)
ServerDown(desc) == [o |-> "SERVER_DOWN", desc |-> desc]
ServerError(exc, desc) == [o |-> "error", exc |-> exc, desc |-> desc]
ServerResult(entries) == [o |-> "result", entries |-> entries]

\* an entry of a search result: the pair (dn, attrs)
Entry(dn, memberOf) ==
    [t |-> "entry", dn |-> dn, attrs |-> [memberOf |-> memberOf]]

LDAP(url, search_string) == [url |-> url, search_string |-> search_string]

\* one search: an ldap.SERVER_DOWN is turned into a CoprHttpException that
\* carries the directory's description, any other error propagates
LDAP_send_request_once(self, ou, attrs, ffilter, outcome) ==
    CASE outcome.o = "result"      -> Return(List(outcome.entries))
      [] outcome.o = "SERVER_DOWN" -> Raise("CoprHttpException", outcome.desc)
      [] outcome.o = "error"       -> Raise(outcome.exc, outcome.desc)

\* the retry loop: attempt i gets script[i]; only an ldap.SERVER_DOWN that
\* reaches the loop is retried, after a sleep.  A loop still retrying when
\* the script ends has not returned.
RECURSIVE LDAP_send_request_repeatedly(_, _, _, _, _, _)
LDAP_send_request_repeatedly(self, ou, attrs, ffilter, script, requests) ==
    IF script = <<>>
    THEN [result |-> [kind |-> "retrying"], requests |-> requests]
    ELSE LET r == LDAP_send_request_once(self, ou, attrs, ffilter,
                                         Head(script))
             sent == Append(requests, <<ou, attrs, ffilter>>)
         IN  IF r.kind = "raise" /\ r.exc = "ldap.SERVER_DOWN"
             THEN LDAP_send_request_repeatedly(self, ou, attrs, ffilter,
                                               Tail(script), sent)
             ELSE [result |-> r, requests |-> sent]

LDAP_send_request(self, ou, attrs, ffilter, script) ==
    LDAP_send_request_repeatedly(self, ou, attrs, ffilter, script, <<>>)

RECURSIVE JoinFilter(_)
JoinFilter(items) ==
    IF items = <<>> THEN <<>>
    ELSE <<"(">> \o Head(items)[1] \o <<"=">> \o Head(items)[2] \o <<")">>
         \o JoinFilter(Tail(items))

S_objectclass == <<"o", "b", "j", "e", "c", "t", "c", "l", "a", "s", "s">>
S_uid == <<"u", "i", "d">>
S_cn == <<"c", "n">>
S_memberOf == "memberOf"

LDAP_build_filter(self, filters) ==
    LET fs == IF Truthy(filters) THEN filters
              ELSE Dict(<< <<S_objectclass, <<"*">> >> >>)
    IN  <<"(", "&">> \o JoinFilter(fs.items) \o <<")">>

\* x[0] of a list
Subscript0(l) ==
    IF l.v = <<>> THEN Raise("IndexError", <<"list index out of range">>)
    ELSE Return(l.v[1])

LDAP_query_one(self, attrs, filters, script) ==
    LET ffilter == LDAP_build_filter(self, filters)
    IN  Then(LDAP_send_request(self, self.search_string, attrs, ffilter,
                               script).result,
             Subscript0)

LDAP_get_user(self, username, script) ==
    LET attrs == <<"cn", "uid", "memberOf", "mail">>
        filters == Dict(<< <<S_objectclass, <<"*">> >>,
                           <<S_uid, username>> >>)
    IN  LDAP_query_one(self, attrs, filters, script)

LDAP_get_user_groups(self, username, script) ==
    Then(LDAP_get_user(self, username, script),
         LAMBDA user :
             IF ~Truthy(user) THEN Return(None)
             ELSE IF user.attrs.memberOf = Absent
                  THEN Raise("KeyError", <<S_memberOf>>)
             ELSE Return(user.attrs.memberOf))

(***************************************************************************)
(* class LDAPGroups                                                        *)
(***************************************************************************)
\* [tuple(x.split("=")) for x in group.split(",")]
SplitAttrs(group) ==
    LET segments == Split(group, ",")
    IN  [i \in 1..Len(segments) |-> Split(segments[i], "=")]

\* the body of the loop for one memberOf value
GroupNameOf(bytes) ==
    Then(decode(bytes),
         LAMBDA group :
             Then(DictFromPairs(SplitAttrs(group)),
                  LAMBDA attrs : DictGet(attrs, S_cn)))

RECURSIVE GroupNamesLoop(_, _)
GroupNamesLoop(values, groups) ==
    IF values = <<>> THEN Return(List(groups))
    ELSE Then(GroupNameOf(Head(values)),
              LAMBDA name :
                  GroupNamesLoop(Tail(values), Append(groups, name)))

LDAPGroups_group_names(cfg, username, script) ==
    LET ldap_client == LDAP(cfg.LDAP_URL, cfg.LDAP_SEARCH_STRING)
    IN  Then(LDAP_get_user_groups(ldap_client, username, script),
             LAMBDA values :
                 IF values.t # "list"
                 THEN Raise("TypeError",
                            <<"'NoneType' object is not iterable">>)
                 ELSE GroupNamesLoop(values.v, <<>>))

(***************************************************************************)
(* class OpenIDGroups.  A response carries identity_url, email, timezone   *)
(* and extensions; extensions.lp is Absent or the teams response.          *)
(***************************************************************************)
Resp(identity_url, email, timezone, lp) ==
    [t |-> "resp", identity_url |-> identity_url, email |-> email,
     timezone |-> timezone, extensions |-> [lp |-> lp]]

TeamsResponse(teams) == [t |-> "teams", teams |-> List(teams)]

OpenIDGroups_group_names(resp) ==
    IF resp.extensions.lp # Absent
    THEN LET team_resp == resp.extensions.lp
         IN  Return(Dict(<< <<"fas_groups", team_resp.teams>> >>))
    ELSE Return(None)

(***************************************************************************)
(* class GroupAuth                                                         *)
(***************************************************************************)
\* a variant in which only a response with team data decides
GroupAuth_group_names_teamsonly(cfg, resp, username, script) ==
    IF Truthy(resp) /\ resp.extensions.lp # Absent
    THEN OpenIDGroups_group_names(resp)
    ELSE IF cfg.FAS_LOGIN /\ Truthy(username) THEN Return(None)
    ELSE IF /\ Truthy(username)
            /\ Truthy(cfg.LDAP_URL)
            /\ Truthy(cfg.LDAP_SEARCH_STRING)
         THEN LDAPGroups_group_names(cfg, username.v, script)
    ELSE Raise("CoprHttpException", <<"Nowhere to get user groups from">>)

GroupAuth_group_names(cfg, resp, username, script) ==
    IF Truthy(resp) THEN OpenIDGroups_group_names(resp)
    ELSE IF cfg.FAS_LOGIN /\ Truthy(username) THEN Return(None)
    ELSE IF /\ Truthy(username)
            /\ Truthy(cfg.LDAP_URL)
            /\ Truthy(cfg.LDAP_SEARCH_STRING)
         THEN LDAPGroups_group_names(cfg, username.v, script)
    ELSE Raise("CoprHttpException", <<"Nowhere to get user groups from">>)

GroupAuth_groups(cfg, resp, username, script) ==
    Then(GroupAuth_group_names(cfg, resp, username, script),
         LAMBDA names : Return(Dict(<< <<"fas_groups", names>> >>)))

(***************************************************************************)
(* The user table.  A User object has id 0 until it is stored; a stored    *)
(* row has its position in the table as id.                                *)
(***************************************************************************)
User(id, username, mail, timezone, openid_groups) ==
    [t |-> "user", id |-> id, username |-> username, mail |-> mail,
     timezone |-> timezone, openid_groups |-> openid_groups]

\* UsersLogic.get(username).first()
UsersLogic_get_first(table, username) ==
    IF \E i \in 1..Len(table) : table[i].username = username
    THEN table[CHOOSE i \in 1..Len(table) :
                 /\ table[i].username = username
                 /\ \A j \in 1..(i - 1) : table[j].username # username]
    ELSE None

\* UsersLogic.create_user_wrapper(username, email, timezone=None)
UsersLogic_create_user_wrapper(username, email, timezone) ==
    User(0, username, email, timezone, None)

(***************************************************************************)
(* class FedoraAccounts                                                    *)
(***************************************************************************)
\* a variant that takes the claims only for a new user
FedoraAccounts_user_from_response_keep(cfg, table, resp) ==
    LET username == fed_raw_name(cfg, resp.identity_url)
        found == UsersLogic_get_first(table, username)
    IN  IF ~Truthy(found)
        THEN Return(UsersLogic_create_user_wrapper(username, resp.email,
                                                   resp.timezone))
        ELSE Return(found)

FedoraAccounts_user_from_response(cfg, table, resp) ==
    LET username == fed_raw_name(cfg, resp.identity_url)
        found == UsersLogic_get_first(table, username)
        user == IF ~Truthy(found)
                THEN UsersLogic_create_user_wrapper(username, resp.email,
                                                    resp.timezone)
                ELSE found
    IN  Return([user EXCEPT !.mail = resp.email,
                            !.timezone = resp.timezone])

FedoraAccounts_username(cfg, sess) ==
    IF sess.openid # Absent THEN Str(fed_raw_name(cfg, sess.openid.v))
    ELSE None

FedoraAccounts_logout(sess) == [sess EXCEPT !.openid = Absent]

(***************************************************************************)
(* class Kerberos                                                          *)
(***************************************************************************)
KrbConfig(email_domain) == [t |-> "krb", email_domain |-> email_domain]

Kerberos_username(sess) ==
    IF sess.krb5_login # Absent THEN sess.krb5_login ELSE None

\* a variant that pops the wrong key
Kerberos_logout_wrongkey(sess) == [sess EXCEPT !.openid = Absent]

Kerberos_logout(sess) == [sess EXCEPT !.krb5_login = Absent]

\* a variant that provisions whatever the federated setting is
Kerberos_user_from_username_open(cfg, table, username) ==
    LET user == UsersLogic_get_first(table, username)
    IN  IF Truthy(user) THEN Return(user)
        ELSE Return(UsersLogic_create_user_wrapper(
                 username,
                 username \o <<"@">> \o cfg.KRB5_LOGIN.email_domain, None))

Kerberos_user_from_username(cfg, table, username) ==
    LET user == UsersLogic_get_first(table, username)
    IN  IF Truthy(user) THEN Return(user)
        ELSE IF cfg.FAS_LOGIN
             THEN Raise("AccessRestricted",
                        <<"Valid GSSAPI authentication supplied for user '">>
                        \o username \o
                        <<"', but this user doesn't exist in the Copr build system.  Please log-in using the web-UI (without GSSAPI) first.">>)
        ELSE LET krb_config == cfg.KRB5_LOGIN
             IN  IF krb_config.t # "krb"
                 THEN Raise("TypeError", <<"object is not subscriptable">>)
                 ELSE LET email == username \o <<"@">>
                                   \o krb_config.email_domain
                      IN  Return(UsersLogic_create_user_wrapper(
                                   username, email, None))

(***************************************************************************)
(* class UserAuth                                                          *)
(***************************************************************************)
\* a variant that asks for a username first
UserAuth_user_object_krbfirst(cfg, table, resp, username) ==
    IF Truthy(username) /\ Truthy(cfg.KRB5_LOGIN)
    THEN Kerberos_user_from_username(cfg, table, username.v)
    ELSE IF cfg.FAS_LOGIN /\ Truthy(resp)
         THEN FedoraAccounts_user_from_response(cfg, table, resp)
    ELSE Raise("CoprHttpException", <<"No auth method available">>)

UserAuth_user_object(cfg, table, resp, username) ==
    IF cfg.FAS_LOGIN /\ Truthy(resp)
    THEN FedoraAccounts_user_from_response(cfg, table, resp)
    ELSE IF Truthy(username) /\ Truthy(cfg.KRB5_LOGIN)
         THEN Kerberos_user_from_username(cfg, table, username.v)
    ELSE Raise("CoprHttpException", <<"No auth method available">>)

\* a or b
Or(a, b) == IF Truthy(a) THEN a ELSE b

UserAuth_current_username(cfg, sess) ==
    Or(FedoraAccounts_username(cfg, sess), Kerberos_username(sess))

UserAuth_logout(sess) == Kerberos_logout(FedoraAccounts_logout(sess))

(***************************************************************************)
(* Configuration (app.config).  It is fixed when the application starts.   *)
(***************************************************************************)
Config(fas, krb, url, search, provider) ==
    [FAS_LOGIN |-> fas, KRB5_LOGIN |-> krb, LDAP_URL |-> url,
     LDAP_SEARCH_STRING |-> search, OPENID_PROVIDER_URL |-> provider]

ShortProvider == <<"h", ":", "/", "/", "i", "/">>
ExampleProvider == <<"h", "t", "t", "p", "s", ":", "/", "/", "i", "d", ".", "e", "x", "a", "m", "p", "l", "e", ".", "o", "r", "g", "/">>

Configs ==
    {Config(fas, krb, url, search, ShortProvider) :
        fas \in BOOLEAN,
        krb \in {None, KrbConfig(<<"x">>)},
        url \in {None, Str(<<"l">>)},
        search \in {None, Str(<<"o", "u">>)}}

NoSession == [openid |-> Absent, krb5_login |-> Absent]

(***************************************************************************)
(* Specification SpecStrings: the two normalisation functions applied to   *)
(* inputs drawn in the initial state.                                      *)
(***************************************************************************)
PrincipalAlphabet == {"a", "_", ".", "-", "@", "/", " ", "!", "\n"}

ExamplePrincipals ==
    {<<"a", "l", "i", "c", "e", "@", "E", "X", "A", "M", "P", "L", "E", ".", "C", "O", "M">>,
     <<"a", "l", "i", "c", "e", "/", "a", "d", "m", "i", "n", "@", "E", "X", "A", "M", "P", "L", "E", ".", "C", "O", "M">>,
     <<"b", "a", "d", " ", "u", "s", "e", "r", "!">>}

Principals ==
    StringsUpTo(PrincipalAlphabet, MaxPrincipalLen) \cup ExamplePrincipals

\* an identity URL is built from a scheme, the slashes, a host and a tail
Url(parts) == parts.scheme \o parts.slashes \o parts.host \o parts.tail

UrlParts(scheme, slashes, host, tail) ==
    [scheme |-> scheme, slashes |-> slashes, host |-> host, tail |-> tail]

HostAlphabet == {"a", ".", "i"}

S_https == <<"h", "t", "t", "p", "s", ":">>
S_alice == <<"a", "l", "i", "c", "e">>

ExampleUrlParts ==
    {UrlParts(S_https, <<"/", "/">>, <<"i", "d", ".", "e", "x", "a", "m", "p", "l", "e", ".", "o", "r", "g">>, <<"/">> \o S_alice),
     UrlParts(S_https, <<"/", "/">>, <<"o", "t", "h", "e", "r", ".", "e", "x", "a", "m", "p", "l", "e", ".", "c", "o", "m">>, <<"/">> \o S_alice),
     UrlParts(S_https, <<"/", "/">>, S_alice \o <<".">> \o <<"i", "d", ".", "e", "x", "a", "m", "p", "l", "e", ".", "o", "r", "g">>, <<"/">>),
     UrlParts(<<>>, <<>>, <<>>, S_alice)}

AllUrlParts ==
    {UrlParts(scheme, slashes, host, tail) :
        scheme \in {<<>>, <<"h", ":">>},
        slashes \in {<<>>, <<"/", "/">>},
        host \in StringsUpTo(HostAlphabet, MaxHostLen),
        tail \in {<<>>, <<"/">>, <<"/", "a">>, <<"?", "a">>}}
    \cup ExampleUrlParts

StringCalls ==
    {[op |-> "krb_straighten_username", krb_remote_user |-> p] :
        p \in Principals}
    \cup
    {[op |-> "fed_raw_name", oidname |-> Url(parts), parts |-> parts] :
        parts \in AllUrlParts}

InitStrings ==
    /\ config \in {Config(TRUE, None, None, None, provider) :
                      provider \in {ShortProvider, ExampleProvider}}
    /\ users = <<>>
    /\ krb5_login = <<>>
    /\ session = NoSession
    /\ call \in StringCalls
    /\ ret = Pending

Apply_krb_straighten_username ==
    /\ call.op = "krb_straighten_username"
    /\ ret = Pending
    /\ ret' = Return(krb_straighten_username(call.krb_remote_user))
    /\ UNCHANGED <<config, users, krb5_login, session, call>>

Apply_fed_raw_name ==
    /\ call.op = "fed_raw_name"
    /\ ret = Pending
    /\ ret' = Return(Str(fed_raw_name(config, call.oidname)))
    /\ UNCHANGED <<config, users, krb5_login, session, call>>

NextStrings ==
    \/ Apply_krb_straighten_username
    \/ Apply_fed_raw_name

SpecStrings == InitStrings /\ [][NextStrings]_vars

(***************************************************************************)
(* Specification SpecLDAP: the directory client and the group-name parser  *)
(* applied to requests and server scripts drawn in the initial state.      *)
(***************************************************************************)
RECURSIVE SeqsUpTo(_, _)
SeqsUpTo(S, n) ==
    IF n = 0 THEN {<<>>}
    ELSE LET shorter == SeqsUpTo(S, n - 1)
         IN  shorter \cup {Append(q, x) : q \in shorter, x \in S}

S_down == <<"Can't contact LDAP server">>
S_nosuch == <<"No such object">>

\* distinguished names: a leading cn= segment and further segments
Segment(k, v) == k \o <<"=">> \o v

RECURSIVE JoinSegments(_)
JoinSegments(segments) ==
    IF segments = <<>> THEN <<>>
    ELSE <<",">> \o Head(segments) \o JoinSegments(Tail(segments))

DN(parts) == Segment(S_cn, parts.cn) \o JoinSegments(parts.further)

FurtherSegments ==
    {Segment(<<"o", "u">>, <<"Y">>),
     Segment(S_cn, <<"g">>)}

DNParts ==
    {[cn |-> cn, further |-> further] :
        cn \in {<<"X">>, <<"g">>},
        further \in SeqsUpTo(FurtherSegments, MaxFurtherSegments)}

\* memberOf values that are not of that form
OddValues ==
    {encode(<<"X">>),
     encode(<<"o", "u", "=", "Y">>),
     encode(<<"c", "n", "=", "X", "=", "Y">>),
     <<99, 110, 61, 255>>}

WellFormedMemberOf == SeqsUpTo(DNParts, MaxMemberOf)

S_userdn == <<"u", "i", "d", "=", "a">>

\* what a search for one user can give
UserOutcomes ==
    {ServerDown(S_down),
     ServerError("ldap.NO_SUCH_OBJECT", S_nosuch),
     ServerResult(<<>>),
     ServerResult(<<Entry(S_userdn, Absent)>>),
     ServerResult(<<Entry(S_userdn, List(<<encode(DN(
         [cn |-> <<"X">>, further |-> <<>>]))>>))>>)}

Scripts == SeqsUpTo(UserOutcomes, MaxScriptLen) \ {<<>>}

LDAPCalls ==
    {[op |-> "LDAP.send_request", ou |-> <<"o", "u">>,
      attrs |-> <<"cn", "uid", "memberOf", "mail">>,
      ffilter |-> ffilter, script |-> script] :
        ffilter \in {<<"(", "&", ")">>},
        script \in Scripts}
    \cup
    {[op |-> "LDAP.get_user_groups", username |-> <<"a">>,
      script |-> script] : script \in Scripts}
    \cup
    {[op |-> "LDAPGroups.group_names", username |-> <<"a">>,
      form |-> "cn first", parts |-> parts,
      script |-> <<ServerResult(<<Entry(S_userdn,
                     List([i \in 1..Len(parts) |-> encode(DN(parts[i]))]))
                   >>)>>] :
        parts \in WellFormedMemberOf}
    \cup
    {[op |-> "LDAPGroups.group_names", username |-> <<"a">>,
      form |-> "other", parts |-> <<>>,
      script |-> <<ServerResult(<<Entry(S_userdn, List(<<v>>))>>)>>] :
        v \in OddValues}
    \cup
    {[op |-> "LDAPGroups.group_names", username |-> <<"a">>,
      form |-> "other", parts |-> <<>>, script |-> script] :
        script \in Scripts}

InitLDAP ==
    /\ config \in {c \in Configs : Truthy(c.LDAP_URL)
                                   /\ Truthy(c.LDAP_SEARCH_STRING)
                                   /\ ~c.FAS_LOGIN
                                   /\ Truthy(c.KRB5_LOGIN)}
    /\ users = <<>>
    /\ krb5_login = <<>>
    /\ session = NoSession
    /\ call \in LDAPCalls
    /\ ret = Pending

Apply_LDAP_send_request ==
    /\ call.op = "LDAP.send_request"
    /\ ret = Pending
    /\ ret' = LDAP_send_request(
                  LDAP(config.LDAP_URL, config.LDAP_SEARCH_STRING),
                  call.ou, call.attrs, call.ffilter, call.script)
    /\ UNCHANGED <<config, users, krb5_login, session, call>>

Apply_LDAP_get_user_groups ==
    /\ call.op = "LDAP.get_user_groups"
    /\ ret = Pending
    /\ ret' = LDAP_get_user_groups(
                  LDAP(config.LDAP_URL, config.LDAP_SEARCH_STRING),
                  call.username, call.script)
    /\ UNCHANGED <<config, users, krb5_login, session, call>>

Apply_LDAPGroups_group_names ==
    /\ call.op = "LDAPGroups.group_names"
    /\ ret = Pending
    /\ ret' = LDAPGroups_group_names(config, call.username, call.script)
    /\ UNCHANGED <<config, users, krb5_login, session, call>>

NextLDAP ==
    \/ Apply_LDAP_send_request
    \/ Apply_LDAP_get_user_groups
    \/ Apply_LDAPGroups_group_names

SpecLDAP == InitLDAP /\ [][NextLDAP]_vars

(***************************************************************************)
(* Request handlers.  db.session.add(user); db.session.commit() inserts a  *)
(* new object as a new row and writes a changed row back.                  *)
(***************************************************************************)
Store(table, user) ==
    IF user.id = 0
    THEN Append(table, [user EXCEPT !.id = Len(table) + 1])
    ELSE [table EXCEPT ![user.id] = user]

\* the object as it is after the commit
Stored(table, user) ==
    IF user.id = 0 THEN [user EXCEPT !.id = Len(table) + 1] ELSE user

\* flask.g.user as the before-request hook sets it from the session
lookup_current_user(cfg, table, sess) ==
    LET username == UserAuth_current_username(cfg, sess)
    IN  IF Truthy(username) THEN UsersLogic_get_first(table, username.v)
        ELSE None

\* models.Krb5Login.query.filter(Krb5Login.primary == username).first()
Krb5Login_first(rows, username) ==
    IF \E i \in 1..Len(rows) : rows[i].primary = username
    THEN rows[CHOOSE i \in 1..Len(rows) :
                /\ rows[i].primary = username
                /\ \A j \in 1..(i - 1) : rows[j].primary # username]
    ELSE None

Krb5Login(user_id, primary) ==
    [t |-> "krb5_login", user_id |-> user_id, primary |-> primary]

\* what a handler returns: flask.redirect(oid.get_next_url()), and the
\* redirect or the JSON data of gssapi_login_action()
Redirect == [t |-> "response", body |-> "redirect"]
gssapi_login_action == [t |-> "response", body |-> "redirect or json"]

Outcome(r, table, rows, sess) ==
    [ret |-> r, users |-> table, krb5_login |-> rows, session |-> sess]

auth_403(message) ==
    Raise("AccessRestricted", <<"Can't log-in using GSSAPI: ">> \o message)

\* a variant that keeps the groups an Identity already has
gssapi_login_groups_keep(cfg, table, rows, sess, username, user, script) ==
    With(GroupAuth_groups(cfg, None, username, script),
         LAMBDA groups :
             IF groups.kind # "return"
             THEN Outcome(groups, table, rows, sess)
             ELSE Outcome(Return(gssapi_login_action),
                          Store(table,
                                IF Truthy(user.openid_groups) THEN user
                                ELSE [user EXCEPT
                                        !.openid_groups = groups.value]),
                          rows,
                          [sess EXCEPT !.krb5_login = Str(user.username)]))

\* the part of gssapi_login after the user object is known: the groups are
\* resolved and stored, then the session is marked
gssapi_login_groups(cfg, table, rows, sess, username, user, script) ==
    With(GroupAuth_groups(cfg, None, username, script),
         LAMBDA groups :
             IF groups.kind # "return"
             THEN Outcome(groups, table, rows, sess)
             ELSE Outcome(Return(gssapi_login_action),
                          Store(table, [user EXCEPT
                                          !.openid_groups = groups.value]),
                          rows,
                          [sess EXCEPT !.krb5_login = Str(user.username)]))

gssapi_login(cfg, table, rows, sess, remote_user, script) ==
    IF lookup_current_user(cfg, table, sess) # None
    THEN Outcome(Return(gssapi_login_action), table, rows, sess)
    ELSE IF remote_user = Absent
    THEN Outcome(auth_403(<<"Kerberos authentication failed (no credentials provided)">>),
                 table, rows, sess)
    ELSE
    LET krb_username == remote_user.v
        username == krb_straighten_username(krb_username)
        krb_login == IF Truthy(username)
                     THEN Krb5Login_first(rows, username.v) ELSE None
    IN  IF ~Truthy(username)
        THEN Outcome(auth_403(<<"invalid krb5 username: ">> \o krb_username),
                     table, rows, sess)
        ELSE IF Truthy(krb_login)
        THEN gssapi_login_groups(cfg, table, rows, sess, username,
                                 table[krb_login.user_id], script)
        ELSE With(UserAuth_user_object(cfg, table, None, username),
                  LAMBDA r :
                      IF r.kind = "raise" /\ r.exc = "AccessRestricted"
                      THEN Outcome(auth_403(r.msg), table, rows, sess)
                      ELSE IF r.kind # "return"
                      THEN Outcome(r, table, rows, sess)
                      ELSE gssapi_login_groups(
                               cfg, Store(table, r.value),
                               Append(rows,
                                      Krb5Login(Stored(table, r.value).id,
                                                username.v)),
                               sess, username, Stored(table, r.value),
                               script))

\* the handler of a completed federated login: the identity is built from
\* the response, gets the groups of the response and is stored, and the
\* session is marked with the identity URL
oid_after_login(cfg, table, rows, sess, resp) ==
    With(UserAuth_user_object(cfg, table, resp, None),
         LAMBDA r :
             IF r.kind # "return" THEN Outcome(r, table, rows, sess)
             ELSE With(GroupAuth_groups(cfg, resp, None, <<>>),
                       LAMBDA groups :
                           IF groups.kind # "return"
                           THEN Outcome(groups, table, rows, sess)
                           ELSE Outcome(
                                    Return(Redirect),
                                    Store(table,
                                          [r.value EXCEPT
                                             !.openid_groups = groups.value]),
                                    rows,
                                    [sess EXCEPT
                                       !.openid = Str(resp.identity_url)])))

(***************************************************************************)
(* Specification Spec: the handlers, one request at a time.                *)
(***************************************************************************)
Url_a == <<"h", ":", "/", "/", "a", ".", "i", "/">>

Claims == {[email |-> <<"e", "1">>, timezone |-> Str(<<"U">>)],
           [email |-> <<"e", "2">>, timezone |-> Str(<<"C">>)]}

LoginResps ==
    {Resp(url, c.email, c.timezone, lp) :
        url \in {Url_a},
        c \in Claims,
        lp \in {Absent, TeamsResponse(<< <<"g">> >>)}}

RemoteUsers ==
    {Absent, Str(<<"a", "@", "R">>), Str(<<"a", " ", "b">>)}

MemberOf_X == List(<<encode(DN([cn |-> <<"X">>, further |->
                         <<Segment(<<"o", "u">>, <<"Y">>)>>]))>>)

GroupScripts ==
    {<<ServerDown(S_down)>>,
     <<ServerResult(<<>>)>>,
     <<ServerResult(<<Entry(S_userdn, MemberOf_X)>>)>>}

Init ==
    /\ config \in Configs
    /\ users = <<>>
    /\ krb5_login = <<>>
    /\ session = NoSession
    /\ call = NoCall
    /\ ret = Pending

Apply(o) ==
    /\ ret' = o.ret
    /\ users' = o.users
    /\ krb5_login' = o.krb5_login
    /\ session' = o.session
    /\ UNCHANGED config

Do_oid_after_login ==
    \E resp \in LoginResps :
        /\ call' = [op |-> "oid_after_login", resp |-> resp,
                    existing |-> UsersLogic_get_first(
                        users, fed_raw_name(config, resp.identity_url))]
        /\ Apply(oid_after_login(config, users, krb5_login, session, resp))

\* the Identity stored under the name a REMOTE_USER value straightens to
Existing(table, remote_user) ==
    IF remote_user = Absent THEN None
    ELSE With(krb_straighten_username(remote_user.v),
              LAMBDA username :
                  IF Truthy(username)
                  THEN UsersLogic_get_first(table, username.v)
                  ELSE None)

Do_gssapi_login ==
    \E remote_user \in RemoteUsers, script \in GroupScripts :
        /\ call' = [op |-> "gssapi_login", remote_user |-> remote_user,
                    script |-> script,
                    existing |-> Existing(users, remote_user)]
        /\ Apply(gssapi_login(config, users, krb5_login, session,
                              remote_user, script))

Do_logout ==
    /\ call' = [op |-> "logout", session |-> session]
    /\ Apply(Outcome(Return(Redirect), users, krb5_login,
                     UserAuth_logout(session)))

\* calls of the facade's functions; they leave the stored state alone
CallResps ==
    {None} \cup
    {Resp(Url_a, <<"e", "1">>, Str(<<"U">>), lp) :
        lp \in {Absent, TeamsResponse(<< <<"g">> >>), TeamsResponse(<<>>)}}

CallUsernames == {None, Str(<<>>), Str(<<"a">>), Str(<<"b">>)}

GroupUsernames == {None, Str(<<>>), Str(<<"a">>)}

\* the directory is only an input of a call that can reach it
CallScripts(resp, username) ==
    IF resp = None /\ username \notin {None, Str(<<>>)} THEN GroupScripts
    ELSE {<<ServerResult(<<>>)>>}

Call_user_object ==
    \E resp \in CallResps, username \in CallUsernames :
        /\ call' = [op |-> "UserAuth.user_object", resp |-> resp,
                    username |-> username]
        /\ ret' = UserAuth_user_object(config, users, resp, username)
        /\ UNCHANGED <<config, users, krb5_login, session>>

Call_group_names ==
    \E resp \in CallResps, username \in GroupUsernames :
        \E script \in CallScripts(resp, username) :
            /\ call' = [op |-> "GroupAuth.group_names", resp |-> resp,
                        username |-> username, script |-> script]
            /\ ret' = GroupAuth_group_names(config, resp, username, script)
            /\ UNCHANGED <<config, users, krb5_login, session>>

Call_groups ==
    \E resp \in CallResps, username \in GroupUsernames :
        \E script \in CallScripts(resp, username) :
            /\ call' = [op |-> "GroupAuth.groups", resp |-> resp,
                        username |-> username, script |-> script]
            /\ ret' = GroupAuth_groups(config, resp, username, script)
            /\ UNCHANGED <<config, users, krb5_login, session>>

Next ==
    \/ Do_oid_after_login
    \/ Do_gssapi_login
    \/ Do_logout
    \/ Call_user_object
    \/ Call_group_names
    \/ Call_groups

Spec == Init /\ [][Next]_vars

(***************************************************************************)
(* Specification SpecRequests: gssapi_login requests of clients that are   *)
(* not logged in, each on its own worker.  A request reads and commits at  *)
(* separate moments, and the steps of different requests interleave.  The  *)
(* requests in flight are held in call.req, their responses in ret.of.     *)
(***************************************************************************)
RequestRemoteUsers ==
    {Str(<<"a", "@", "R">>), Str(<<"a", "@", "S">>), Str(<<"b">>)}

\* a request before its first step; username, krb_login and user are the
\* handler's local variables, sess is the client's session
Request(remote_user, script) ==
    [pc |-> "start", remote_user |-> remote_user, script |-> script,
     username |-> None, krb_login |-> None, user |-> None,
     provisioned |-> FALSE, bound |-> FALSE, sess |-> NoSession]

\* db.session.add(krb_login); db.session.commit() on the krb5_login table
Krb5Login_commit(rows, row) == Append(rows, row)

InitRequests ==
    /\ config \in {c \in Configs : Truthy(c.KRB5_LOGIN)}
    /\ users = <<>>
    /\ krb5_login = <<>>
    /\ session = NoSession
    /\ \E remote_user \in [1..MaxRequests -> RequestRemoteUsers],
          script \in GroupScripts :
           call = [op |-> "gssapi_login requests",
                   req |-> [i \in 1..MaxRequests |->
                               Request(remote_user[i], script)]]
    /\ ret = [kind |-> "responses", of |-> [i \in 1..MaxRequests |-> Pending]]

\* request i goes on as r and the tables become table and rows
Continue(i, r, table, rows) ==
    /\ call' = [call EXCEPT !.req[i] = r]
    /\ users' = table
    /\ krb5_login' = rows
    /\ UNCHANGED <<config, session, ret>>

\* request i ends with a response
Respond(i, r, response, table, rows) ==
    /\ call' = [call EXCEPT !.req[i] = [r EXCEPT !.pc = "done"]]
    /\ ret' = [ret EXCEPT !.of[i] = response]
    /\ users' = table
    /\ krb5_login' = rows
    /\ UNCHANGED <<config, session>>

\* the checks of the request and the query for the binding of the name
Request_query(i) ==
    /\ call.req[i].pc = "start"
    /\ With(call.req[i], LAMBDA r :
         IF lookup_current_user(config, users, r.sess) # None
         THEN Respond(i, r, Return(gssapi_login_action), users, krb5_login)
         ELSE IF r.remote_user = Absent
         THEN Respond(i, r, auth_403(<<"Kerberos authentication failed (no credentials provided)">>),
                      users, krb5_login)
         ELSE With(krb_straighten_username(r.remote_user.v),
                   LAMBDA username :
             IF ~Truthy(username)
             THEN Respond(i, r,
                          auth_403(<<"invalid krb5 username: ">>
                                   \o r.remote_user.v),
                          users, krb5_login)
             ELSE Continue(i, [r EXCEPT
                                 !.pc = "queried",
                                 !.username = username,
                                 !.krb_login =
                                     Krb5Login_first(krb5_login, username.v)],
                           users, krb5_login)))

\* the user object: the one of the binding found, else the provisioner's
Request_user(i) ==
    /\ call.req[i].pc = "queried"
    /\ With(call.req[i], LAMBDA r :
         IF Truthy(r.krb_login)
         THEN Continue(i, [r EXCEPT !.pc = "groups",
                                    !.user = users[r.krb_login.user_id]],
                       users, krb5_login)
         ELSE With(UserAuth_user_object(config, users, None, r.username),
                   LAMBDA o :
             IF o.kind = "raise" /\ o.exc = "AccessRestricted"
             THEN Respond(i, [r EXCEPT !.provisioned = TRUE],
                          auth_403(o.msg), users, krb5_login)
             ELSE IF o.kind # "return"
             THEN Respond(i, [r EXCEPT !.provisioned = TRUE], o,
                          users, krb5_login)
             ELSE Continue(i, [r EXCEPT !.pc = "bind",
                                        !.provisioned = TRUE,
                                        !.user = o.value],
                           users, krb5_login)))

\* the first commit: the new krb5_login row, and a new user with it
Request_bind(i) ==
    /\ call.req[i].pc = "bind"
    /\ With(call.req[i], LAMBDA r :
         Continue(i, [r EXCEPT !.pc = "groups",
                               !.bound = TRUE,
                               !.user = Stored(users, r.user)],
                  Store(users, r.user),
                  Krb5Login_commit(krb5_login,
                                   Krb5Login(Stored(users, r.user).id,
                                             r.username.v))))

\* the groups, the second commit and the session marker
Request_groups(i) ==
    /\ call.req[i].pc = "groups"
    /\ With(call.req[i], LAMBDA r :
         With(GroupAuth_groups(config, None, r.username, r.script),
              LAMBDA groups :
             IF groups.kind # "return"
             THEN Respond(i, r, groups, users, krb5_login)
             ELSE Respond(i, [r EXCEPT
                                !.sess.krb5_login = Str(r.user.username)],
                          Return(gssapi_login_action),
                          Store(users, [r.user EXCEPT
                                          !.openid_groups = groups.value]),
                          krb5_login)))

NextRequests ==
    \E i \in 1..MaxRequests :
        \/ Request_query(i)
        \/ Request_user(i)
        \/ Request_bind(i)
        \/ Request_groups(i)

SpecRequests == InitRequests /\ [][NextRequests]_vars

(***************************************************************************)
(* Properties of the normalisation functions (SpecStrings).                *)
(***************************************************************************)
\* the part of a principal in front of its first '@'
BeforeRealm(s) ==
    IF IndexOf(s, "@") = 0 THEN s ELSE SubSeq(s, 1, IndexOf(s, "@") - 1)

\* C8: krb_straighten_username returns, for every principal, either None or
\* a non-empty string of letters, digits, underscore, dash and dot only,
\* which is the principal with '@' and all after it removed and every '/'
\* replaced by '_'.
C8_StraightenedNameIsClean ==
    (call.op = "krb_straighten_username" /\ ret # Pending) =>
        /\ ret.kind = "return"
        /\ \/ ret.value = None
           \/ /\ ret.value.t = "str"
              /\ ret.value.v # <<>>
              /\ \A i \in 1..Len(ret.value.v) : IsNameChar(ret.value.v[i])
              /\ ret.value.v = SubSlash(BeforeRealm(call.krb_remote_user))

ProviderHost ==
    IF config.OPENID_PROVIDER_URL = ShortProvider THEN <<"i">> ELSE <<"i", "d", ".", "e", "x", "a", "m", "p", "l", "e", ".", "o", "r", "g">>

\* s contains sub as a contiguous part
Contains(s, sub) ==
    \E i \in 1..(Len(s) - Len(sub) + 1) :
        SubSeq(s, i, i + Len(sub) - 1) = sub

IsFullUrl(parts) ==
    /\ parts.scheme # <<>>
    /\ parts.slashes = <<"/", "/">>
    /\ parts.host # <<>>

\* C9 as claimed: an identity URL on the provider's host is normalised to
\* the bare username that follows the host, and an identity URL on any
\* other host is returned unchanged.
C9_PathUsernameOrVerbatim ==
    (call.op = "fed_raw_name" /\ ret # Pending /\ IsFullUrl(call.parts)
     /\ Len(call.parts.tail) >= 2 /\ Head(call.parts.tail) = "/") =>
        ret.value.v = IF call.parts.host = ProviderHost
                      THEN Tail(call.parts.tail)
                      ELSE call.oidname

\* C9 amended: fed_raw_name normalises by host.  A URL whose host is
\* <user>.<provider host>, with a dot-free user, gives <user>; a URL whose
\* host does not contain '.' + provider host gives that host alone, whatever
\* follows the host; a string without a network location is returned
\* unchanged.
C9_HostWithoutProviderSuffix ==
    (call.op = "fed_raw_name" /\ ret # Pending) =>
        LET host == call.parts.host
            suffix == <<".">> \o ProviderHost
            user == SubSeq(host, 1, Len(host) - Len(suffix))
        IN  /\ ret.kind = "return"
            /\ (/\ call.parts.slashes = <<"/", "/">>
                /\ Len(host) > Len(suffix)
                /\ host = user \o suffix
                /\ ~Contains(user, <<".">>))
               => ret.value.v = user
            /\ (/\ call.parts.slashes = <<"/", "/">>
                /\ host # <<>>
                /\ ~Contains(host, suffix))
               => ret.value.v = host
            /\ (call.parts.slashes = <<>> \/ host = <<>>)
               => ret.value.v = call.oidname

C9_Witness ==
    /\ call.op = "fed_raw_name"
    /\ config.OPENID_PROVIDER_URL = ExampleProvider
    /\ call.oidname = <<"h", "t", "t", "p", "s", ":", "/", "/", "a", "l", "i", "c", "e", ".", "i", "d", ".", "e", "x", "a", "m", "p", "l", "e", ".", "o", "r", "g", "/">>
    /\ ret = Return(Str(S_alice))

(***************************************************************************)
(* Properties of the directory client and the group parser (SpecLDAP).     *)
(***************************************************************************)
\* the server is down for the first attempts and then answers
DownThenAnswer(script) ==
    /\ script[Len(script)].o = "result"
    /\ \A i \in 1..(Len(script) - 1) : script[i].o = "SERVER_DOWN"

\* C1: when the server is down for some attempts and then answers,
\* send_request repeats the same request once per attempt, returns the
\* answer and raises nothing.
C1_RetriesUntilAnswered ==
    (call.op = "LDAP.send_request" /\ ret # Pending
     /\ DownThenAnswer(call.script)) =>
        /\ ret.result =
               Return(List(call.script[Len(call.script)].entries))
        /\ Len(ret.requests) = Len(call.script)
        /\ \A i \in 1..Len(ret.requests) :
               ret.requests[i] = <<call.ou, call.attrs, call.ffilter>>

\* C10: for memberOf values of the form cn=X,<further segments>,
\* LDAPGroups.group_names returns the list of the leading X, one per value
\* and in the same order.
C10_LeadingCnIsGroupName ==
    (call.op = "LDAPGroups.group_names" /\ ret # Pending
     /\ call.form = "cn first") =>
        ret = Return(List([i \in 1..Len(call.parts) |-> call.parts[i].cn]))

\* the first answer of the server is a search result
FirstIsResult(script) == Head(script).o = "result"

\* C11: when the search for the user gives no entry, get_user_groups
\* returns None and raises nothing; when it gives an entry that has a
\* memberOf attribute, get_user_groups returns the memberOf values.
C11_NoEntryGivesNone ==
    (call.op = "LDAP.get_user_groups" /\ ret # Pending
     /\ FirstIsResult(call.script)) =>
        LET entries == Head(call.script).entries
        IN  /\ entries = <<>> => ret = Return(None)
            /\ (entries # <<>> /\ entries[1].attrs.memberOf # Absent)
                   => ret = Return(entries[1].attrs.memberOf)

\* C12: when the first answer of the server is an error other than
\* SERVER_DOWN, send_request makes one attempt and raises a
\* CoprHttpException whose message is the description the server gave.
C12_OtherErrorIsUserFacing ==
    (call.op = "LDAP.send_request" /\ ret # Pending
     /\ Head(call.script).o = "error") =>
        /\ Len(ret.requests) = 1
        /\ ret.result = Raise("CoprHttpException", Head(call.script).desc)

(***************************************************************************)
(* Properties of the facade (Spec).                                        *)
(***************************************************************************)
\* a username is supplied: it is not None and not the empty string
Supplied(username) == username # None /\ username.v # <<>>

\* C2: user_object delegates to FedoraAccounts.user_from_response when
\* FAS_LOGIN is on and a response is given (a username given too changes
\* nothing), else to Kerberos.user_from_username when a username is given
\* and KRB5_LOGIN is set, else fails with 'No auth method available'; no
\* call of it changes the user table.
C2_UserObjectDispatch ==
    [][call'.op = "UserAuth.user_object" =>
        /\ users' = users
        /\ ret' =
             IF config.FAS_LOGIN /\ call'.resp # None
             THEN FedoraAccounts_user_from_response(config, users,
                                                    call'.resp)
             ELSE IF Supplied(call'.username) /\ config.KRB5_LOGIN # None
             THEN Kerberos_user_from_username(config, users,
                                              call'.username.v)
             ELSE Raise("CoprHttpException", <<"No auth method available">>)
      ]_vars

C2_Witness ==
    /\ call.op = "UserAuth.user_object"
    /\ config.FAS_LOGIN
    /\ call.resp # None
    /\ Supplied(call.username)
    /\ config.KRB5_LOGIN # None
    /\ ret.kind = "return"
    /\ ret.value.mail = call.resp.email
    /\ ret.value.username # call.username.v

HasUser(table, username) ==
    \E i \in 1..Len(table) : table[i].username = username

\* the call reaches Kerberos.user_from_username
ReachesKerberos(c) ==
    /\ c.op = "UserAuth.user_object"
    /\ ~(config.FAS_LOGIN /\ c.resp # None)
    /\ Supplied(c.username)
    /\ config.KRB5_LOGIN # None

\* C3: Kerberos.user_from_username for a username without an Identity fails
\* with AccessRestricted and creates nothing when FAS_LOGIN is on, and with
\* FAS_LOGIN off returns a new Identity of that name whose e-mail is
\* username@email_domain.
C3_UnknownKerberosUser ==
    [][(ReachesKerberos(call') /\ ~HasUser(users, call'.username.v)) =>
        IF config.FAS_LOGIN
        THEN /\ ret'.kind = "raise"
             /\ ret'.exc = "AccessRestricted"
             /\ users' = users
        ELSE /\ ret'.kind = "return"
             /\ ret'.value.t = "user"
             /\ ret'.value.id = 0
             /\ ret'.value.username = call'.username.v
             /\ ret'.value.mail = call'.username.v \o <<"@">>
                                  \o config.KRB5_LOGIN.email_domain
      ]_vars

C3_Witness ==
    /\ ReachesKerberos(call)
    /\ ~HasUser(users, call.username.v)
    /\ ~config.FAS_LOGIN
    /\ ret.kind = "return"
    /\ ret.value.mail = <<"b", "@", "x">>
    /\ users # <<>>

RowsOf(table, username) ==
    {i \in 1..Len(table) : table[i].username = username}

\* C4: no two stored Identities share a username, and after a federated
\* login the one Identity of the normalised username has the e-mail and the
\* timezone of that login's response.
C4_OneIdentityLastWriteWins ==
    /\ \A i, j \in 1..Len(users) :
           users[i].username = users[j].username => i = j
    /\ (call.op = "oid_after_login" /\ ret.kind = "return") =>
           LET rows == RowsOf(users, fed_raw_name(config,
                                                  call.resp.identity_url))
           IN  /\ Cardinality(rows) = 1
               /\ \A i \in rows :
                      /\ users[i].mail = call.resp.email
                      /\ users[i].timezone = call.resp.timezone

\* a login of an Identity that was stored with other claims
C4_Witness ==
    /\ call.op = "oid_after_login"
    /\ ret.kind = "return"
    /\ call.existing # None
    /\ call.existing.mail # call.resp.email
    /\ \E i \in 1..Len(users) :
           /\ users[i].id = call.existing.id
           /\ users[i].mail = call.resp.email

HasTeams(resp) == resp # None /\ resp.extensions.lp # Absent

\* C5: for a response with team data T, group_names returns the list T and
\* groups returns the structure that maps 'fas_groups' to the list T.
C5_TeamsListDirectly ==
    /\ (call.op = "GroupAuth.group_names" /\ HasTeams(call.resp)) =>
           ret = Return(call.resp.extensions.lp.teams)
    /\ (call.op = "GroupAuth.groups" /\ HasTeams(call.resp)) =>
           ret = Return(Dict(<< <<"fas_groups",
                                  call.resp.extensions.lp.teams>> >>))

DirectoryConfigured ==
    config.LDAP_URL # None /\ config.LDAP_SEARCH_STRING # None

\* the last three steps of the decision order
GroupNamesWithoutResponse(c) ==
    IF Supplied(c.username) /\ config.FAS_LOGIN THEN Return(None)
    ELSE IF Supplied(c.username) /\ DirectoryConfigured
    THEN LDAPGroups_group_names(config, c.username.v, c.script)
    ELSE Raise("CoprHttpException", <<"Nowhere to get user groups from">>)

\* C6 as claimed: the first step applies only to a response with team data;
\* a response without team data is passed over and the username and the
\* configuration decide.
C6_OnlyTeamDataDecides ==
    (call.op = "GroupAuth.group_names") =>
        ret = IF HasTeams(call.resp)
              THEN OpenIDGroups_group_names(call.resp)
              ELSE GroupNamesWithoutResponse(call)

\* C6 amended: the first step applies to every response that is supplied,
\* and gives None for one without team data; the username and the
\* configuration decide only when no response is supplied.
C6_AnyResponseDecides ==
    (call.op = "GroupAuth.group_names") =>
        /\ ret = IF call.resp # None
                 THEN OpenIDGroups_group_names(call.resp)
                 ELSE GroupNamesWithoutResponse(call)
        /\ (call.resp # None /\ ~HasTeams(call.resp)) => ret = Return(None)

C6_Witness ==
    /\ call.op = "GroupAuth.group_names"
    /\ call.resp # None
    /\ ~HasTeams(call.resp)
    /\ Supplied(call.username)
    /\ ~config.FAS_LOGIN
    /\ DirectoryConfigured
    /\ ret = Return(None)

\* C7: logout leaves a session without either marker, in which nobody is
\* logged in, whatever the session was; it succeeds and changes no stored
\* row.
C7_LogoutClearsBothMarkers ==
    [][call'.op = "logout" =>
        /\ ret'.kind = "return"
        /\ session'.openid = Absent
        /\ session'.krb5_login = Absent
        /\ UserAuth_current_username(config, session') = None
        /\ (session = NoSession => session' = session)
        /\ users' = users
        /\ krb5_login' = krb5_login
      ]_vars

C7_Witness ==
    /\ call.op = "logout"
    /\ call.session.openid # Absent
    /\ call.session.krb5_login # Absent
    /\ session = NoSession
    /\ users # <<>>

\* C14: a gssapi_login of a client that is not logged in, when it succeeds,
\* leaves the Identity it logs in with exactly the groups structure that
\* GroupAuth.groups gives for the straightened name in that request,
\* whatever groups the Identity had before.
C14_LoginReplacesGroups ==
    [][(/\ call'.op = "gssapi_login"
        /\ lookup_current_user(config, users, session) = None
        /\ ret'.kind = "return") =>
           /\ session'.krb5_login # Absent
           /\ HasUser(users', session'.krb5_login.v)
           /\ UsersLogic_get_first(users',
                                   session'.krb5_login.v).openid_groups =
                  GroupAuth_groups(
                      config, None,
                      krb_straighten_username(call'.remote_user.v),
                      call'.script).value
      ]_vars

\* a login of an Identity that had other groups, from a federated login
C14_Witness ==
    /\ call.op = "gssapi_login"
    /\ ret.kind = "return"
    /\ call.existing # None
    /\ call.existing.openid_groups =
           Dict(<< <<"fas_groups",
                     Dict(<< <<"fas_groups", List(<< <<"g">> >>)>> >>)>> >>)
    /\ session.krb5_login = Str(call.existing.username)
    /\ users[call.existing.id].openid_groups =
           Dict(<< <<"fas_groups", None>> >>)

\* C15: a gssapi_login that ends in an error leaves the user table, the
\* krb5_login table and the session as they were, and a gssapi_login that
\* sets the session's krb5_login marker has succeeded and set it to the
\* name of a stored Identity that a krb5_login row is bound to.
C15_FailedLoginChangesNothing ==
    [][call'.op = "gssapi_login" =>
        /\ ret'.kind = "raise" =>
               /\ users' = users
               /\ krb5_login' = krb5_login
               /\ session' = session
        /\ session'.krb5_login # session.krb5_login =>
               /\ ret'.kind = "return"
               /\ \E i \in 1..Len(krb5_login') :
                      users'[krb5_login'[i].user_id].username =
                          session'.krb5_login.v
      ]_vars

=============================================================================
